---------------------------- MODULE Spec2Model ----------------------------
(***************************************************************************)
(* A model of blunder.rs: the BsdError enumeration (src/bsd.rs) with its   *)
(* numeric lookup, description and Display, and the generic Blunder<T>     *)
(* wrapper (src/lib.rs).                                                   *)
(*                                                                         *)
(* Option<T> is modelled as a sequence: None is <<>>, Some(x) is <<x>>.    *)
(* A BsdError value is modelled by the name of its variant.                *)
(***************************************************************************)
EXTENDS Integers, Sequences, FiniteSets, TLC

VARIABLES
  errno,     \* the thread's errno register (a C int)
  bsdOp,     \* the last lookup that ran: "none", "from_i32" or "from_errno"
  code,      \* the integer that lookup was given (from_errno: the value read)
  result,    \* the Option<BsdError> that lookup returned
  fmtSelf,   \* Display for BsdError: the value being formatted, an Option
  fmtStack,  \* Display for BsdError: one program counter per active fmt frame
  fmtOut,    \* Display for BsdError: the pieces written to the Formatter
  fmtState,  \* "idle", "running", "returned" or "overflow"
  w,         \* the Blunder<T> in scope, an Option of [kind, detail]
  op,        \* the last wrapper operation that ran
  arg,       \* the kind that operation was given, an Option
  ret,       \* the value that operation returned
  pc,        \* a function whose body uses fail! or maybe_fail!: where it is
  callee,    \* which of the two macros that function's body uses
  exprVal,   \* the value of the macro's argument
  ran,       \* whether the statement after the macro has run
  fnRet      \* the Result the function has returned, <<>> before it returns

bsdVars == <<errno, bsdOp, code, result>>
fmtVars == <<fmtSelf, fmtStack, fmtOut, fmtState>>
blunderVars == <<w, op, arg, ret>>
macroVars == <<pc, callee, exprVal, ran, fnRet>>
vars == <<errno, bsdOp, code, result, fmtSelf, fmtStack, fmtOut, fmtState,
          w, op, arg, ret, pc, callee, exprVal, ran, fnRet>>

None == <<>>
Some(x) == <<x>>

(***************************************************************************)
(* Bounds of the model.                                                    *)
(***************************************************************************)
\* integer codes given to from_i32 and stored in errno: -NegCodes..MaxCode
NegCodes == 3
MaxCode == 100
\* the number of nested fmt frames the thread's stack holds
MaxStack == 4

\* the extreme values of a signed 32-bit integer
I32Min == -2147483647 - 1
I32Max == 2147483647

Codes == ((0 - NegCodes)..MaxCode) \cup {I32Min, I32Max}

(***************************************************************************)
(* enum BsdError: the variants in declaration order, each with its         *)
(* explicit discriminant where the source writes one.                      *)
(***************************************************************************)
BsdError ==
  << <<"EPERM", 1>>, <<"ENOENT">>, <<"ESRCH">>, <<"EINTR">>, <<"EIO">>, <<"ENXIO">>, <<"E2BIG">>, <<"ENOEXEC">>, <<"EBADF">>,
     <<"ECHILD", 10>>, <<"EDEADLK">>, <<"ENOMEM">>, <<"EACCES">>, <<"EFAULT">>, <<"ENOTBLK">>, <<"EBUSY">>, <<"EEXIST">>, <<"EXDEV">>, <<"ENODEV">>,
     <<"ENOTDIR", 20>>, <<"EISDIR">>, <<"EINVAL">>, <<"ENFILE">>, <<"EMFILE">>, <<"ENOTTY">>, <<"ETXTBSY">>, <<"EFBIG">>, <<"ENOSPC">>, <<"ESPIPE">>,
     <<"EROFS", 30>>, <<"EMLINK">>, <<"EPIPE">>, <<"EDOM">>, <<"ERANGE">>, <<"EAGAIN">>, <<"EINPROGRESS">>, <<"EALREADY">>, <<"ENOTSOCK">>, <<"EDESTADDRREQ">>,
     <<"EMSGSIZE", 40>>, <<"EPROTOTYPE">>, <<"ENOPROTOOPT">>, <<"EPROTONOSUPPORT">>, <<"ESOCKTNOSUPPORT">>, <<"EOPNOTSUPP">>, <<"EPFNOSUPPORT">>, <<"EAFNOSUPPORT">>, <<"EADDRINUSE">>, <<"EADDRNOTAVAIL">>,
     <<"ENETDOWN", 50>>, <<"ENETUNREACH">>, <<"ENETRESET">>, <<"ECONNABORTED">>, <<"ECONNRESET">>, <<"ENOBUFS">>, <<"EISCONN">>, <<"ENOTCONN">>, <<"ESHUTDOWN">>,
     <<"ETIMEDOUT", 60>>, <<"ECONNREFUSED">>, <<"ELOOP">>, <<"ENAMETOOLONG">>, <<"EHOSTDOWN">>, <<"EHOSTUNREACH">>, <<"ENOTEMPTY">>, <<"EPROCLIM">>, <<"EUSERS">>, <<"EDQUOT">>,
     <<"ESTALE", 70>>, <<"EBADRPC">>, <<"ERPCMISMATCH">>, <<"EPROGUNAVAIL">>, <<"EPROGMISMATCH">>, <<"EPROCUNAVAIL">>, <<"ENOLCK">>, <<"ENOSYS">>, <<"EFTYPE">>,
     <<"EAUTH", 80>>, <<"ENEEDAUTH">>, <<"EIDRM">>, <<"ENOMSG">>, <<"EOVERFLOW">>, <<"ECANCELED">>, <<"EILSEQ">>, <<"ENOATTR">>, <<"EDOOFUS">>, <<"EBADMSG">>,
     <<"EMULTIHOP", 90>>, <<"ENOLINK">>, <<"EPROTO">>, <<"ENOTCAPABLE">>, <<"ECAPMODE">>, <<"ENOTRECOVERABLE">>, <<"EOWNERDEAD">> >>

Variants == {BsdError[i][1] : i \in 1..Len(BsdError)}

\* A variant that does not write its discriminant takes the previous one
\* plus one; a variant with `= n` takes n.
RECURSIVE discriminant_at(_)
discriminant_at(i) ==
  IF Len(BsdError[i]) = 2 THEN BsdError[i][2]
  ELSE IF i = 1 THEN 0
  ELSE discriminant_at(i - 1) + 1

\* the discriminants as the compiler fixes them, by position
discriminants == [i \in 1..Len(BsdError) |-> discriminant_at(i)]

Index(self) == CHOOSE i \in 1..Len(BsdError) : BsdError[i][1] = self

\* `BsdError::V as i64`
discriminant(self) == discriminants[Index(self)]

Discriminants == {discriminants[i] : i \in 1..Len(BsdError)}

\* enum_from_primitive! generates from_i64 as one chain over the variants in
\* declaration order: if n == V1 as i64 { Some(V1) } else if ... else { None }
RECURSIVE from_i64_chain(_, _)
from_i64_chain(n, i) ==
  IF i > Len(BsdError) THEN None
  ELSE IF n = discriminants[i] THEN Some(BsdError[i][1])
  ELSE from_i64_chain(n, i + 1)

\* a chain that compares with the variant's position in the declaration
RECURSIVE from_i64_position_chain(_, _)
from_i64_position_chain(n, i) ==
  IF i > Len(BsdError) THEN None
  ELSE IF n = i THEN Some(BsdError[i][1])
  ELSE from_i64_position_chain(n, i + 1)

from_i64_by_position(n) == from_i64_position_chain(n, 1)

\* a lookup that falls back on the first variant for an unknown code
from_i64_or_default(n) ==
  IF from_i64_chain(n, 1) = None THEN Some(BsdError[1][1])
  ELSE from_i64_chain(n, 1)

\* a lookup that takes every code above the last decade for the last variant
from_i64_saturating(n) ==
  IF n > 96 THEN Some(BsdError[Len(BsdError)][1])
  ELSE from_i64_chain(n, 1)

from_i64(n) == from_i64_chain(n, 1)

\* FromPrimitive::from_i32 widens and calls from_i64
from_i32(n) == from_i64(n)

\* a from_errno that classifies 0 instead of the register
from_errno_no_read(reg) == from_i32(0)

\* BsdError::from_errno, given the value of the register that errno() reads
\* (Errno holds a c_int, which is i32: `e.0 as i32` keeps the value)
from_errno(reg) ==
  LET e == reg
  IN  from_i32(e)

(***************************************************************************)
(* Error::description for BsdError: one arm per variant.                   *)
(***************************************************************************)
description(self) ==
  CASE self = "EPERM" ->
         "Operation not permitted. An attempt was made to perform an operation limited to processes with appropriate privileges or to the owner of a file or other resources."
    [] self = "ENOENT" ->
         "No such file or directory. A component of a specified pathname did not exist, or the pathname was an empty string."
    [] self = "ESRCH" ->
         "No such process. No process could be found corresponsing to that specified by the given ID."
    [] self = "EINTR" ->
         "Interrupted system call. An asynchronous signal (such as SIGINT or SIGQUIT) was caught by the process during the execution of an interruptible function. If the signal handler performs a normal return, the interrupted system call will seem to have returned the error condition."
    [] self = "EIO" ->
         "Input/output error. Some physical input or output error occurred. This error will not be reported until a subsequent operation on the same file descriptor and may be lost (over written) by any subsequent errors."
    [] self = "ENXIO" ->
         "Device not configured. Input or output on a special file referred to a device that did not exist, or made a request beyond the limits of the device.  This error may also occur when, for example, a tape drive is not online or no disk pack is loaded on a drive"
    [] self = "E2BIG" ->
         "Argument list too long. The number of bytes used for the argument and environment list of the new process exceeded the current limit (NCARGS in <sys/param.h>)."
    [] self = "ENOEXEC" ->
         "Exec format error. A request was made to execute a file that, although it has the appropriate permissions, was not in the format required for an executable file."
    [] self = "EBADF" ->
         "Bad file descriptor. A file descriptor argument was out of range, referred to no open file, or a read (write) request was made to a file that was only open for writing (reading)."
    [] self = "ECHILD" ->
         "No child processes. A wait(2) or waitpid(2) function was executed by a process that had no existing or unwaited-for child processes."
    [] self = "EDEADLK" ->
         "Resource deadlock avoided. An attempt was made to lock a system resource that would have resulted in a deadlock situation."
    [] self = "ENOMEM" ->
         "Cannot allocate memory. The new process image required more memory than was allowed by the hardware or by system-imposed memory management constraints. A lack of swap space is normally temporary; however, a lack of core is not.  Soft limits may be increased to their corresponding hard limits."
    [] self = "EACCES" ->
         "Permission denied. An attempt was made to access a file in a way forbidden by its file access permissions."
    [] self = "EFAULT" ->
         "Bad address. The system detected an invalid address in attempting to use an argument of a call."
    [] self = "ENOTBLK" ->
         "Block device required. A block device operation was attempted on a non-block device or file."
    [] self = "EBUSY" ->
         "Device busy. An attempt to use a system resource which was in use at the time in a manner which would have conflicted with the request"
    [] self = "EEXIST" ->
         "File exists. An existing file was mentioned in an inappropriate context, for instance, as the new link name in a link(2) system call"
    [] self = "EXDEV" ->
         "Cross-device link. A hard link to a file on another file system was attempted."
    [] self = "ENODEV" ->
         "Operation not supported by device. An attempt was made to apply an inappropriate function to a device, for example, trying to read a write-only device such as a printer."
    [] self = "ENOTDIR" ->
         "Not a directory. A component of the specified pathname existed, but it was not a directory, when a directory was expected."
    [] self = "EISDIR" ->
         "Is a directory. An attempt was made to open a directory with write mode specified."
    [] self = "EINVAL" ->
         "Invalid argument. Some invalid argument was supplied. (For example, specifying an undefined signal to a signal(3) function or a kill(2) system call)."
    [] self = "ENFILE" ->
         "Too many open files in system. Maximum number of open files allowable on the system has been reached and requests for an open cannot be satisfied until at least one has been closed."
    [] self = "EMFILE" ->
         "Too many open files. Maximum number of file descriptors allowable in the process has been reached and requests for an open cannot be satisfied until at least one has been closed. The getdtablesize(2) system call will obtain the current limit."
    [] self = "ENOTTY" ->
         "Inappropriate ioctl for device. A control function (see ioctl(2)) was attempted for a file or special device for which the operation was inappropriate."
    [] self = "ETXTBSY" ->
         "Text file busy. The new process was a pure procedure (shared text) file which was open for writing by another process, or while the pure procedure file was being executed an open(2) call requested write access."
    [] self = "EFBIG" ->
         "File too large. The size of a file exceeded the maximum."
    [] self = "ENOSPC" ->
         "No space left on device. A write(2) to an ordinary file, the creation of a directory or symbolic link, or the creation of a directory entry failed because no more disk blocks were available on the file system, or the allocation of an inode for a newly created file failed because no more inodes were available on the file system."
    [] self = "ESPIPE" ->
         "Illegal seek. An lseek(2) system call was issued on a socket, pipe or FIFO."
    [] self = "EROFS" ->
         "Read-only file system. An attempt was made to modify a file or directory on a file system that was read-only at the time."
    [] self = "EMLINK" ->
         "Too many links. Maximum allowable hard links to a single file has been exceeded (limit of 32767 hard links per file)."
    [] self = "EPIPE" ->
         "Broken pipe. A write on a pipe, socket or FIFO for which there is no process to read the data."
    [] self = "EDOM" ->
         "Numerical argument out of domain. A numerical input argument was outside the defined domain of the mathematical function."
    [] self = "ERANGE" ->
         "Result too large. A numerical result of the function was too large to fit in the available space (perhaps exceeded precision)."
    [] self = "EAGAIN" ->
         "Resource temporarily unavailable. This is a temporary condition and later calls to the same routine may complete normally."
    [] self = "EINPROGRESS" ->
         "Operation now in progress. An operation that takes a long time to complete (such as a connect(2)) was attempted on a non-blocking object (see fcntl(2))."
    [] self = "EALREADY" ->
         "Operation already in progress. An operation was attempted on a non-blocking object that already had an operation in progress."
    [] self = "ENOTSOCK" ->
         "Socket operation on non-socket. Self-explanatory."
    [] self = "EDESTADDRREQ" ->
         "Destination address required. A required address was omitted from an operation on a socket."
    [] self = "EMSGSIZE" ->
         "Message too long. A message sent on a socket was larger than the internal message buffer or some other network limit."
    [] self = "EPROTOTYPE" ->
         "Protocol wrong type for socket. A protocol was specified that does not support the semantics of the socket type requested. For example, you cannot use the ARPA Internet UDP protocol with type SOCK_STREAM."
    [] self = "ENOPROTOOPT" ->
         "Protocol not available. A bad option or level was specified in a getsockopt(2) or setsockopt(2) call."
    [] self = "EPROTONOSUPPORT" ->
         "Protocol not supported. The protocol has not been configured into the system or no implementation for it exists."
    [] self = "ESOCKTNOSUPPORT" ->
         "Socket type not supported. The support for the socket type has not been configured into the system or no implementation for it exists."
    [] self = "EOPNOTSUPP" ->
         "Operation not supported. The attempted operation is not supported for the type of object referenced. Usually this occurs when a file descriptor refers to a file or socket that cannot support this operation, for example, trying to accept a connection on a datagram socket."
    [] self = "EPFNOSUPPORT" ->
         "Protocol family not supported. The protocol family has not been configured into the system or no implementation for it exists."
    [] self = "EAFNOSUPPORT" ->
         "Address family not  supported by protocol family. An address incompatible with the requested protocol was used. For example, you should not necessarily expect to be able to use NS addresses with ARPA Internet protocols."
    [] self = "EADDRINUSE" ->
         "Address already in use. Only one usage of each address is normally permitted."
    [] self = "EADDRNOTAVAIL" ->
         "Can't assign requested address. Normally results from an attempt to create a socket with an address not on this machine."
    [] self = "ENETDOWN" ->
         "Network is down. A socket operation encountered a dead network."
    [] self = "ENETUNREACH" ->
         "Network is unreachable. A socket operation was attempted to an unreachable network."
    [] self = "ENETRESET" ->
         "Network dropped connection on reset. The host you were connected to crashed and rebooted."
    [] self = "ECONNABORTED" ->
         "Software caused connectionabort. A connection abort was caused internal to your host machine."
    [] self = "ECONNRESET" ->
         "Connection reset by peer. A connection was forcibly closed by a peer. This normally results from a loss of the connection on the remote socket due to a timeout or a reboot."
    [] self = "ENOBUFS" ->
         "No buffer space available. An operation on a socket or pipe was not performed because the system lacked sufficient buffer space or because a queue was full."
    [] self = "EISCONN" ->
         "Socket is already connected. A connect(2) request was made on an already connected socket; or, a sendto(2) or sendmsg(2) request on a connected socket specified a destination when already connected."
    [] self = "ENOTCONN" ->
         "Socket  is not connected. An request to send or receive data was disallowed because the socket was not connected and (when sending on a datagram socket) no address was supplied."
    [] self = "ESHUTDOWN" ->
         "Can't send after socket shutdown. A request to send data was disallowed because the socket had already been shut down with a previous shutdown(2) call."
    [] self = "ETIMEDOUT" ->
         "Operation timed out. A connect(2) or send(2) request failed because the connected party did not properly respond after a period of time.  (The timeout period is dependent on the communication protocol.)"
    [] self = "ECONNREFUSED" ->
         "Connection refused. No connection could be made because the target machine actively refused it.  This usually results from trying to connect to a service that is inactive on the foreign host."
    [] self = "ELOOP" ->
         "Too many levels of symbolic links. A path name lookup involved more than 32 (MAXSYMLINKS) symbolic links."
    [] self = "ENAMETOOLONG" ->
         "File name too long. A component of a path name exceeded {NAME_MAX} characters, or an entire path name exceeded {PATH_MAX} characters.(See also the description of _PC_NO_TRUNC in pathconf(2).)"
    [] self = "EHOSTDOWN" ->
         "Host is down. A socket operation failed because the destination host was down."
    [] self = "EHOSTUNREACH" ->
         "No route to host. A socket operation was attempted to an unreachable host."
    [] self = "ENOTEMPTY" ->
         "Directory not empty. A directory with entries other than `.' and `..' was supplied to a remove directory or rename call."
    [] self = "EPROCLIM" ->
         "Too many processes."
    [] self = "EUSERS" ->
         "Too many users. The quota system ran out of table entries."
    [] self = "EDQUOT" ->
         "Disc quota exceeded. A write(2) to an ordinary file, the creation of a directory or symbolic link, or the creation of a directory entry failed because the user's quota of disk blocks was exhausted, or the allocation of an inode for a newly created file failed because the user's quota of inodes was exhausted."
    [] self = "ESTALE" ->
         "Stale NFS file handle. An attempt was made to access an open file (on an NFS file system) which is now unavailable as referenced by the file descriptor.  This may indicate the file was deleted on the NFS server or some other catastrophic event occurred."
    [] self = "EBADRPC" ->
         "RPC struct is bad. Exchange of RPC information was unsuccessful."
    [] self = "ERPCMISMATCH" ->
         "RPC version wrong. The version of RPC on the remote peer is not compatible with the local version."
    [] self = "EPROGUNAVAIL" ->
         "RPC prog. not avail. The requested program is not  registered on the remote host."
    [] self = "EPROGMISMATCH" ->
         "Program version wrong. The requested version of the program is not available on the remote host (RPC)."
    [] self = "EPROCUNAVAIL" ->
         "Bad procedure for program. An RPC call was attempted for a procedure which does not exist in the remote program."
    [] self = "ENOLCK" ->
         "No locks available. A system-imposed limit on the number of simultaneous file locks was reached."
    [] self = "ENOSYS" ->
         "Function not implemented. Attempted a system call that is not available on this system."
    [] self = "EFTYPE" ->
         "Inappropriate file type or format. The file was the wrong type for the operation, or a data file had the wrong format."
    [] self = "EAUTH" ->
         "Authentication error. Attempted to use an invalid authentication ticket to mount a NFS file system."
    [] self = "ENEEDAUTH" ->
         "Need authenticator. An authentication ticket must be obtained before the given NFS file system may be mounted."
    [] self = "EIDRM" ->
         "Identifier removed. An IPC identifier was removed while the current process was waiting on it."
    [] self = "ENOMSG" ->
         "No message of desired type. An IPC message queue does not contain a message of the desired type, or a message catalog does not contain the requested message."
    [] self = "EOVERFLOW" ->
         "Value too large to be stored in data type. A numerical result of the function was too large to be stored in the caller provided space."
    [] self = "ECANCELED" ->
         "Operation canceled. The scheduled operation was canceled."
    [] self = "EILSEQ" ->
         "Illegal byte sequence.  While decoding a multibyte character the function came along an invalid or an incomplete sequence of bytes or the given wide character is invalid."
    [] self = "ENOATTR" ->
         "Attribute not found. The specified extended attribute does not exist."
    [] self = "EDOOFUS" ->
         "Programming error. A function or API is being abused in a way which could only be detected at run-time."
    [] self = "EBADMSG" ->
         "Bad message. A corrupted message was detected."
    [] self = "EMULTIHOP" ->
         "Multihop attempted. This error code is unused, but present for compatibility with other systems."
    [] self = "ENOLINK" ->
         "Link has been severed. This error code is unused, but present for compatibility with other systems."
    [] self = "EPROTO" ->
         "Protocol error. A device or socket encountered an unrecoverable protocol error."
    [] self = "ENOTCAPABLE" ->
         "Capabilities insufficient. An operation on a capability file descriptor requires greater privilege than the capability allows."
    [] self = "ECAPMODE" ->
         "Not permitted in capability mode. The system call or operation is not permitted for capability mode processes."
    [] self = "ENOTRECOVERABLE" ->
         "State not recoverable. The state protected by a robust mutex is not recoverable."
    [] self = "EOWNERDEAD" ->
         "Previous owner died. The owner of a robust mutex terminated while holding the mutex lock."

\* Error::cause for BsdError
cause(self) == None

(***************************************************************************)
(* Blunder<T>: the kinds the wrapper is instantiated with are BsdError,    *)
(* the test's enum Wat, and std::io::Error as the instance of the bound    *)
(* `E: Into<std::io::Error> + StdError`.                                   *)
(***************************************************************************)
Wat == {"Wat::One"}

IoErrors == {"io::Error(NotFound)", "io::Error(PermissionDenied)"}

Kinds == Variants \cup Wat \cup IoErrors

DetailTexts == {"x", "config.toml missing"}

Details == {None} \cup {Some(t) : t \in DetailTexts}

\* T::description of the kind
kind_description(kind) ==
  IF kind \in Variants THEN description(kind)
  ELSE IF kind \in Wat THEN "wat"
  ELSE IF kind = "io::Error(NotFound)" THEN "entity not found"
  ELSE "permission denied"

\* T::cause of the kind
kind_cause(kind) ==
  IF kind \in Variants THEN cause(kind)
  ELSE None

\* E::into of the kind (for std::io::Error, the reflexive conversion)
kind_into(kind) == kind

\* the struct literal Blunder { kind: .., detail: .. }
Blunder(kind, detail) == [kind |-> kind, detail |-> detail]

Blunders == {Blunder(k, d) : k \in Kinds, d \in Details}

\* #[derive(PartialEq)]: field by field
eq(a, b) == a.kind = b.kind /\ a.detail = b.detail

\* a deref() that yields a fixed value of the kind's type, not the stored one
deref_fixed(self) ==
  IF self.kind \in Variants THEN BsdError[1][1] ELSE self.kind

\* Deref::deref
deref(self) == self.kind

\* a detail() that substitutes the empty text for a missing detail
detail_or_empty(self) ==
  IF self.detail = None THEN Some("") ELSE self.detail

\* Blunder::detail
detail(self) == self.detail

\* a description() that prefers the detail text when there is one
description_of_detail(self) ==
  IF self.detail # None THEN self.detail[1] ELSE kind_description(self.kind)

\* <Blunder<T> as StdError>::description
blunder_description(self) == kind_description(self.kind)

\* <Blunder<T> as StdError>::cause
blunder_cause(self) == kind_cause(self.kind)

\* <Blunder<T> as Display>::fmt: write!(f, "{}", self.description()), the
\* pieces it writes to the Formatter
blunder_fmt(self) == <<blunder_description(self)>>

\* a from() that fills the detail with the kind's description
from_with_description(err) == Blunder(err, Some(kind_description(err)))

\* <Blunder<E> as From<E>>::from
from(err) == Blunder(err, None)

\* an into() that folds the detail into the target error's message
into_with_detail(self) ==
  IF self.detail = None THEN kind_into(self.kind)
  ELSE "io::Error(Other)"

\* <Blunder<E> as Into<std::io::Error>>::into
into(self) == kind_into(self.kind)

\* fail!(expr) in a function returning Result<_, Blunder<T>>
fail(expr) == <<"Err", from(expr)>>

\* a maybe_fail! that drops the error and goes on
maybe_fail_ignoring(e) == <<"continue">>

\* maybe_fail!(expr): what the expansion does with the value e of expr,
\* return the Result of fail!(err) or fall through to the next statement
maybe_fail(e) ==
  IF e # None
  THEN LET err == e[1] IN <<"return", fail(err)>>
  ELSE <<"continue">>

(***************************************************************************)
(* The initial state: a fresh thread, no lookup made, no wrapper built.    *)
(***************************************************************************)
Init ==
  /\ errno = 0
  /\ bsdOp = "none"
  /\ code = 0
  /\ result = None
  /\ fmtSelf = None
  /\ fmtStack = <<>>
  /\ fmtOut = <<>>
  /\ fmtState = "idle"
  /\ w = None
  /\ op = "none"
  /\ arg = <<>>
  /\ ret = <<>>
  /\ pc = "idle"
  /\ callee = "none"
  /\ exprVal = <<>>
  /\ ran = FALSE
  /\ fnRet = <<>>

(***************************************************************************)
(* BsdError lookups.                                                       *)
(***************************************************************************)
\* an operating-system call on this thread leaves the error number e in errno
OsCall(e) ==
  /\ errno' = e
  /\ UNCHANGED <<bsdOp, code, result>>
  /\ UNCHANGED fmtVars
  /\ UNCHANGED blunderVars
  /\ UNCHANGED macroVars

\* BsdError::from_i32(n)
FromI32(n) ==
  /\ bsdOp' = "from_i32"
  /\ code' = n
  /\ result' = from_i32(n)
  /\ UNCHANGED errno
  /\ UNCHANGED fmtVars
  /\ UNCHANGED blunderVars
  /\ UNCHANGED macroVars

\* BsdError::from_errno()
FromErrno ==
  /\ bsdOp' = "from_errno"
  /\ code' = errno
  /\ result' = from_errno(errno)
  /\ UNCHANGED errno
  /\ UNCHANGED fmtVars
  /\ UNCHANGED blunderVars
  /\ UNCHANGED macroVars

\* from_i32 is a pure function: it is applied to every code of the bounds
NextBsd == \E n \in Codes : FromI32(n)

SpecBsd == Init /\ [][NextBsd]_vars

\* from_errno between operating-system calls
NextErrno ==
  \/ \E e \in Codes : OsCall(e)
  \/ FromErrno

SpecErrno == Init /\ [][NextErrno]_vars

(***************************************************************************)
(* Display for BsdError, one step per frame of fmt.  write!(f, "{}: {}",   *)
(* self, self.description()) formats argument 0, then writes ": ", then    *)
(* formats argument 1.  Argument 0 is self under `{}`, that is a call of   *)
(* Display::fmt on the same value.                                         *)
(***************************************************************************)
\* format!("{}", v) / v.to_string(): the outermost call of fmt
FmtCall(self) ==
  /\ fmtState \in {"idle", "returned"}
  /\ fmtSelf' = Some(self)
  /\ fmtStack' = <<"arg0">>
  /\ fmtOut' = <<>>
  /\ fmtState' = "running"
  /\ UNCHANGED bsdVars
  /\ UNCHANGED blunderVars
  /\ UNCHANGED macroVars

\* the innermost frame of fmt runs up to its next call or to its return
FmtStep ==
  /\ fmtState = "running"
  /\ LET top == Len(fmtStack)
     IN  IF fmtStack[top] = "arg0"
         THEN \* `{}` of self: call Display::fmt(self, f) again
              IF top < MaxStack
              THEN /\ fmtStack' = Append([fmtStack EXCEPT ![top] = "rest"], "arg0")
                   /\ UNCHANGED <<fmtOut, fmtState>>
              ELSE \* no room for another frame: the thread overflows its
                   \* stack and the process aborts
                   /\ fmtState' = "overflow"
                   /\ UNCHANGED <<fmtStack, fmtOut>>
         ELSE \* argument 0 is written: ": ", argument 1, return
              /\ fmtOut' = fmtOut \o <<": ", description(fmtSelf[1])>>
              /\ fmtStack' = SubSeq(fmtStack, 1, top - 1)
              /\ fmtState' = IF top = 1 THEN "returned" ELSE "running"
  /\ UNCHANGED fmtSelf
  /\ UNCHANGED bsdVars
  /\ UNCHANGED blunderVars
  /\ UNCHANGED macroVars

NextFmt ==
  \/ \E self \in Variants : FmtCall(self)
  \/ FmtStep

SpecFmt == Init /\ [][NextFmt]_vars

\* a call of fmt that has started keeps running: the thread is not suspended
SpecFmtFair == SpecFmt /\ WF_vars(FmtStep)

(***************************************************************************)
(* Blunder<T>.                                                             *)
(***************************************************************************)
\* let error = Blunder { kind: kind, detail: d }  (inside the crate)
Construct(kind, d) ==
  /\ w' = Some(Blunder(kind, d))
  /\ op' = "construct"
  /\ arg' = <<kind, d>>
  /\ ret' = <<>>
  /\ UNCHANGED bsdVars
  /\ UNCHANGED fmtVars
  /\ UNCHANGED macroVars

\* let error: Blunder<T> = From::from(err)
From(err) ==
  /\ w' = Some(from(err))
  /\ op' = "from"
  /\ arg' = <<err>>
  /\ ret' = <<>>
  /\ UNCHANGED bsdVars
  /\ UNCHANGED fmtVars
  /\ UNCHANGED macroVars

\* if let Err(err) = goto_fail(): a function whose body is fail!(err) is
\* called and its caller binds the error it returns
Fail(err) ==
  /\ op' = "fail"
  /\ arg' = <<err>>
  /\ ret' = fail(err)
  /\ w' = IF fail(err)[1] = "Err" THEN Some(fail(err)[2]) ELSE None
  /\ UNCHANGED bsdVars
  /\ UNCHANGED fmtVars
  /\ UNCHANGED macroVars

\* error.detail()
Detail ==
  /\ w # None
  /\ op' = "detail"
  /\ arg' = <<>>
  /\ ret' = detail(w[1])
  /\ UNCHANGED w
  /\ UNCHANGED bsdVars
  /\ UNCHANGED fmtVars
  /\ UNCHANGED macroVars

\* error.description()
Description ==
  /\ w # None
  /\ op' = "description"
  /\ arg' = <<>>
  /\ ret' = <<blunder_description(w[1])>>
  /\ UNCHANGED w
  /\ UNCHANGED bsdVars
  /\ UNCHANGED fmtVars
  /\ UNCHANGED macroVars

\* error.cause()
Cause ==
  /\ w # None
  /\ op' = "cause"
  /\ arg' = <<>>
  /\ ret' = blunder_cause(w[1])
  /\ UNCHANGED w
  /\ UNCHANGED bsdVars
  /\ UNCHANGED fmtVars
  /\ UNCHANGED macroVars

\* error.into(): takes the wrapper by value, so it is gone afterwards
Into ==
  /\ w # None
  /\ w[1].kind \in IoErrors
  /\ op' = "into"
  /\ arg' = <<w[1]>>
  /\ ret' = <<into(w[1])>>
  /\ w' = None
  /\ UNCHANGED bsdVars
  /\ UNCHANGED fmtVars
  /\ UNCHANGED macroVars

\* *error
Deref ==
  /\ w # None
  /\ op' = "deref"
  /\ arg' = <<>>
  /\ ret' = <<deref(w[1])>>
  /\ UNCHANGED w
  /\ UNCHANGED bsdVars
  /\ UNCHANGED fmtVars
  /\ UNCHANGED macroVars

\* format!("{}", error)
Display ==
  /\ w # None
  /\ op' = "display"
  /\ arg' = <<>>
  /\ ret' = blunder_fmt(w[1])
  /\ UNCHANGED w
  /\ UNCHANGED bsdVars
  /\ UNCHANGED fmtVars
  /\ UNCHANGED macroVars

NextBlunder ==
  \/ \E kind \in Kinds, d \in Details : Construct(kind, d)
  \/ \E err \in Kinds : From(err)
  \/ \E err \in Kinds : Fail(err)
  \/ Detail
  \/ Description
  \/ Cause
  \/ Into
  \/ Deref
  \/ Display

SpecBlunder == Init /\ [][NextBlunder]_vars

(***************************************************************************)
(* A function returning Result<(), Blunder<T>> whose body is one of the    *)
(* macros, a statement after it, and Ok(()):                               *)
(*     fail!(err); stmt; Ok(())      or      maybe_fail!(e); stmt; Ok(())  *)
(***************************************************************************)
\* the function with fail! is called with the error err
CallFail(err) ==
  /\ pc = "idle"
  /\ pc' = "macro"
  /\ callee' = "fail"
  /\ exprVal' = err
  /\ ran' = FALSE
  /\ fnRet' = <<>>
  /\ UNCHANGED bsdVars
  /\ UNCHANGED fmtVars
  /\ UNCHANGED blunderVars

\* the function with maybe_fail! is called and its expression evaluates to e
CallMaybeFail(e) ==
  /\ pc = "idle"
  /\ pc' = "macro"
  /\ callee' = "maybe_fail"
  /\ exprVal' = e
  /\ ran' = FALSE
  /\ fnRet' = <<>>
  /\ UNCHANGED bsdVars
  /\ UNCHANGED fmtVars
  /\ UNCHANGED blunderVars

\* the macro at the head of the body runs
Macro ==
  /\ pc = "macro"
  /\ LET outcome == IF callee = "fail" THEN <<"return", fail(exprVal)>>
                    ELSE maybe_fail(exprVal)
     IN  IF outcome[1] = "return"
         THEN pc' = "returned" /\ fnRet' = outcome[2]
         ELSE pc' = "after" /\ fnRet' = fnRet
  /\ UNCHANGED <<callee, exprVal, ran>>
  /\ UNCHANGED bsdVars
  /\ UNCHANGED fmtVars
  /\ UNCHANGED blunderVars

\* the statement after the macro runs and the function returns Ok(())
After ==
  /\ pc = "after"
  /\ ran' = TRUE
  /\ pc' = "returned"
  /\ fnRet' = <<"Ok">>
  /\ UNCHANGED <<callee, exprVal>>
  /\ UNCHANGED bsdVars
  /\ UNCHANGED fmtVars
  /\ UNCHANGED blunderVars

\* if let Err(err) = f(): the caller takes the Result and binds its error;
\* the function's frame is gone
Return ==
  /\ pc = "returned"
  /\ op' = callee
  /\ arg' = <<exprVal>>
  /\ ret' = fnRet
  /\ w' = IF fnRet[1] = "Err" THEN Some(fnRet[2]) ELSE w
  /\ pc' = "idle"
  /\ callee' = "none"
  /\ exprVal' = <<>>
  /\ ran' = FALSE
  /\ fnRet' = <<>>
  /\ UNCHANGED bsdVars
  /\ UNCHANGED fmtVars

NextMacro ==
  \/ \E err \in Kinds : CallFail(err)
  \/ \E e \in {None} \cup {Some(err) : err \in Kinds} : CallMaybeFail(e)
  \/ Macro
  \/ After
  \/ Return

SpecMacro == Init /\ [][NextMacro]_vars

(***************************************************************************)
(* The crate as code outside it can use it: kind and detail are private,   *)
(* so there is no struct literal; the caller is suspended while a function *)
(* it called runs.                                                         *)
(***************************************************************************)
NextPublic ==
  \/ pc = "idle" /\ \E err \in Kinds : From(err)
  \/ pc = "idle" /\ \E err \in Kinds : Fail(err)
  \/ pc = "idle" /\ Detail
  \/ pc = "idle" /\ Description
  \/ pc = "idle" /\ Cause
  \/ pc = "idle" /\ Into
  \/ pc = "idle" /\ Deref
  \/ pc = "idle" /\ Display
  \/ \E err \in Kinds : CallFail(err)
  \/ \E e \in {None} \cup {Some(err) : err \in Kinds} : CallMaybeFail(e)
  \/ Macro
  \/ After
  \/ Return

SpecPublic == Init /\ [][NextPublic]_vars

(***************************************************************************)
(* FreeBSD's <sys/errno.h>, the numbering the enumeration's documentation  *)
(* refers to: the name of errno number i is FreeBSDErrno[i].               *)
(***************************************************************************)
FreeBSDErrno ==
  << "EPERM", "ENOENT", "ESRCH", "EINTR", "EIO", "ENXIO", "E2BIG", "ENOEXEC", "EBADF",
     "ECHILD", "EDEADLK", "ENOMEM", "EACCES", "EFAULT", "ENOTBLK", "EBUSY", "EEXIST", "EXDEV", "ENODEV",
     "ENOTDIR", "EISDIR", "EINVAL", "ENFILE", "EMFILE", "ENOTTY", "ETXTBSY", "EFBIG", "ENOSPC", "ESPIPE",
     "EROFS", "EMLINK", "EPIPE", "EDOM", "ERANGE", "EAGAIN", "EINPROGRESS", "EALREADY", "ENOTSOCK", "EDESTADDRREQ",
     "EMSGSIZE", "EPROTOTYPE", "ENOPROTOOPT", "EPROTONOSUPPORT", "ESOCKTNOSUPPORT", "EOPNOTSUPP", "EPFNOSUPPORT", "EAFNOSUPPORT", "EADDRINUSE", "EADDRNOTAVAIL",
     "ENETDOWN", "ENETUNREACH", "ENETRESET", "ECONNABORTED", "ECONNRESET", "ENOBUFS", "EISCONN", "ENOTCONN", "ESHUTDOWN", "ETOOMANYREFS",
     "ETIMEDOUT", "ECONNREFUSED", "ELOOP", "ENAMETOOLONG", "EHOSTDOWN", "EHOSTUNREACH", "ENOTEMPTY", "EPROCLIM", "EUSERS", "EDQUOT",
     "ESTALE", "EREMOTE", "EBADRPC", "ERPCMISMATCH", "EPROGUNAVAIL", "EPROGMISMATCH", "EPROCUNAVAIL", "ENOLCK", "ENOSYS", "EFTYPE",
     "EAUTH", "ENEEDAUTH", "EIDRM", "ENOMSG", "EOVERFLOW", "ECANCELED", "EILSEQ", "ENOATTR", "EDOOFUS", "EBADMSG",
     "EMULTIHOP", "ENOLINK", "EPROTO", "ENOTCAPABLE", "ECAPMODE", "ENOTRECOVERABLE", "EOWNERDEAD", "EINTEGRITY" >>

(***************************************************************************)
(* Properties.                                                             *)
(***************************************************************************)

\* C1: from_i32(d) of a discriminant d is Some(v) for the one variant v whose
\* discriminant is d; from_i32(1) is EPERM; no discriminant is below 1.
C1_FromCodeOfDiscriminant ==
  /\ (bsdOp = "from_i32" /\ code \in Discriminants) =>
       /\ result # None
       /\ result[1] \in Variants
       /\ discriminant(result[1]) = code
       /\ \A v \in Variants : discriminant(v) = code => v = result[1]
  /\ (bsdOp = "from_i32" /\ code = 1) => result = Some("EPERM")
  /\ \A v \in Variants : discriminant(v) >= 1

\* from_i32(60) has returned ETIMEDOUT, the variant after the gap at 59
C1_Witness ==
  bsdOp = "from_i32" /\ code = 60 /\ result = Some("ETIMEDOUT")

\* C2: from_i32(n) of an integer n that is no variant's discriminant (0, the
\* negatives, the gaps, the values above the last one) is None.
C2_FromCodeOfOther ==
  (bsdOp = "from_i32" /\ code \notin Discriminants) => result = None

\* from_i32 has returned None for the gap between ESHUTDOWN and ETIMEDOUT
C2_Witness ==
  bsdOp = "from_i32" /\ code = 59 /\ code \notin Discriminants /\ result = None

\* C3: when a call of Display::fmt on a BsdError ends, the text written is
\* the variant's name, ": " and its description.
C3_DisplayText ==
  fmtState \in {"returned", "overflow"} =>
    fmtOut = <<fmtSelf[1], ": ", description(fmtSelf[1])>>

\* C4: a code that from_i32 classifies is the number FreeBSD gives the error
\* of that name.
C4_PlatformNumbering ==
  (bsdOp = "from_i32" /\ result # None) =>
    /\ code \in DOMAIN FreeBSDErrno
    /\ FreeBSDErrno[code] = result[1]

\* C5: from_errno() returns from_i32(e) for the value e of the errno register
\* at the call, which it leaves as it is: None for 0 and for every value that
\* is no discriminant, the variant of that discriminant otherwise.
C5_FromErrnoState ==
  bsdOp = "from_errno" =>
    /\ result = from_i32(code)
    /\ code = 0 => result = None
    /\ code \notin Discriminants => result = None
    /\ code \in Discriminants =>
         result # None /\ discriminant(result[1]) = code

C5_FromErrnoStep ==
  (bsdOp' # bsdOp \/ code' # code \/ result' # result) =>
    /\ bsdOp' = "from_errno"
    /\ code' = errno
    /\ errno' = errno

C5_FromErrno == [](C5_FromErrnoState) /\ [][C5_FromErrnoStep]_vars

\* after a call that failed with ENOENT, from_errno() has returned ENOENT
C5_Witness ==
  bsdOp = "from_errno" /\ errno = 2 /\ code = 2 /\ result = Some("ENOENT")

\* C6 as stated: every variant from_i32 returns has its discriminant in
\* 1..94, and from_i32(n) is None for every n above 94.
C6_RangeTo94 ==
  bsdOp = "from_i32" =>
    /\ result # None => discriminant(result[1]) \in 1..94
    /\ code > 94 => result = None

\* C6: every variant from_i32 returns has its discriminant in 1..96, and
\* from_i32(n) is None for every n above 96.
C6_RangeTo96 ==
  bsdOp = "from_i32" =>
    /\ result # None => discriminant(result[1]) \in 1..96
    /\ code > 96 => result = None

\* from_i32 has returned None for the first code above the last discriminant
C6_Witness ==
  bsdOp = "from_i32" /\ code = 97 /\ result = None

\* C7: into() of a wrapper is the conversion of its kind, whatever its detail.
C7_IntoIgnoresDetail ==
  op = "into" =>
    /\ ret = <<kind_into(arg[1].kind)>>
    /\ \A d \in Details : into(Blunder(arg[1].kind, d)) = ret[1]

\* a wrapper that carried a detail text has been converted
C7_Witness ==
  op = "into" /\ arg[1].detail = Some("x") /\ ret = <<"io::Error(NotFound)">>

\* C8: the wrapper From::from makes, and the Err value of fail!, holds the
\* converted kind and no detail, and equals Blunder { kind, detail: None }.
C8_FromHasNoDetail ==
  /\ op = "from" =>
       /\ w # None
       /\ w[1].detail = None
       /\ w[1].kind = arg[1]
       /\ eq(w[1], [kind |-> arg[1], detail |-> None])
  /\ op = "fail" =>
       /\ ret[1] = "Err"
       /\ ret[2].detail = None
       /\ ret[2].kind = arg[1]
       /\ eq(ret[2], [kind |-> arg[1], detail |-> None])

\* goto_fail() of the test has returned its error
C8_Witness ==
  op = "fail" /\ arg = <<"Wat::One">> /\ ret[1] = "Err"

\* C9: a wrapper built from a kind and a detail holds them, detail() returns
\* the stored detail, and a call of detail() leaves the wrapper as it is.
C9_DetailState ==
  /\ op = "construct" => w = Some([kind |-> arg[1], detail |-> arg[2]])
  /\ op = "detail" => ret = w[1].detail

C9_DetailStep == op' = "detail" => w' = w

C9_Detail == [](C9_DetailState) /\ [][C9_DetailStep]_vars

\* detail() has returned Some("x")
C9_Witness ==
  op = "detail" /\ w # None /\ w[1].detail = Some("x") /\ ret = Some("x")

\* C10: description() and cause() of a wrapper are those of its kind,
\* whatever its detail.
C10_Delegation ==
  /\ op = "description" =>
       /\ ret = <<kind_description(w[1].kind)>>
       /\ \A d \in Details :
            blunder_description(Blunder(w[1].kind, d)) = ret[1]
  /\ op = "cause" =>
       /\ ret = kind_cause(w[1].kind)
       /\ \A d \in Details : blunder_cause(Blunder(w[1].kind, d)) = ret

\* description() of ENOENT wrapped with a detail has been taken
C10_Witness ==
  /\ op = "description"
  /\ w = Some([kind |-> "ENOENT", detail |-> Some("config.toml missing")])
  /\ ret = <<description("ENOENT")>>

\* C11: *w is the kind the wrapper holds, so a wrapper built with kind k
\* dereferences to k; deref, detail, description, cause and Display leave the
\* wrapper's kind and detail as they were.
C11_ReadOps == {"deref", "detail", "description", "cause", "display"}

C11_DerefState ==
  /\ op = "deref" => (w # None /\ ret = <<w[1].kind>>)
  /\ op = "construct" => w[1].kind = arg[1]

C11_ReadStep == op' \in C11_ReadOps => (w # None /\ w' = w)

C11_DerefReadOnly == [](C11_DerefState) /\ [][C11_ReadStep]_vars

\* the test's wrapper of Wat::One has been dereferenced
C11_Witness ==
  /\ op = "deref"
  /\ w = Some([kind |-> "Wat::One", detail |-> None])
  /\ ret = <<"Wat::One">>

\* C12: maybe_fail!(e) with e = Some(err) makes the function return
\* Err(Blunder::from(err)) at once, the statement after it not run; with
\* e = None it changes nothing and the statement after it runs; fail!(err)
\* makes the function return Err(Blunder::from(err)) at once.
C12_MacroState ==
  pc = "returned" =>
    /\ (callee = "maybe_fail" /\ exprVal # None) =>
         (fnRet = <<"Err", from(exprVal[1])>> /\ ~ran)
    /\ (callee = "maybe_fail" /\ exprVal = None) =>
         (fnRet = <<"Ok">> /\ ran)
    /\ callee = "fail" =>
         (fnRet = <<"Err", from(exprVal)>> /\ ~ran)

C12_MacroStep ==
  pc = "macro" =>
    /\ (callee = "maybe_fail" /\ exprVal = None) =>
         (pc' = "after" /\ UNCHANGED <<callee, exprVal, ran, fnRet>>
            /\ UNCHANGED blunderVars)
    /\ (callee = "fail" \/ exprVal # None) => (pc' = "returned" /\ ~ran')

C12_Macros == [](C12_MacroState) /\ [][C12_MacroStep]_vars

\* a function has returned from maybe_fail!(Some(ENOENT)) without running on
C12_Witness ==
  /\ pc = "returned"
  /\ callee = "maybe_fail"
  /\ exprVal = Some("ENOENT")
  /\ fnRet = <<"Err", [kind |-> "ENOENT", detail |-> None]>>
  /\ ~ran

\* C13: a call of Display::fmt on a BsdError that has started reaches its
\* return.
C13_FmtReturns == (fmtState = "running") ~> (fmtState = "returned")

\* C14: with only the public operations, every wrapper there is (the one in
\* scope, the one inside a returned Err) has no detail, and detail() returns
\* None.
C14_PublicDetailIsNone ==
  /\ w # None => w[1].detail = None
  /\ op = "detail" => ret = None
  /\ (op \in {"fail", "maybe_fail"} /\ ret[1] = "Err") => ret[2].detail = None
  /\ (fnRet # <<>> /\ fnRet[1] = "Err") => fnRet[2].detail = None

\* detail() has been called on the wrapper a maybe_fail! returned
C14_Witness ==
  /\ op = "detail"
  /\ w = Some([kind |-> "EACCES", detail |-> None])
  /\ ret = None
  /\ pc = "idle"

=============================================================================
